---- MODULE Spec2Model ----
(***************************************************************************)
(* Favorite-products API: the relational store (users, tokens, products,    *)
(* favorite links), the authentication gates, the common and management     *)
(* endpoints.                                                               *)
(*                                                                          *)
(* An endpoint is an operator from the current store and the request to the *)
(* outcome of the request: the store it leaves and the response it sends.   *)
(* An action is one request handled from the gate to the response.          *)
(***************************************************************************)
EXTENDS Integers, Sequences, FiniteSets, Bags, TLC

(* ------------------------------ bounds --------------------------------- *)
\* user ids (and token keys) the store issues under Spec
MaxUserId == 2
\* catalog ids the requests of SpecFav range over
MaxCatalogId == 2
\* page numbers requests range over
MaxPage == 3
\* Product rows in the stores of SpecList
ListMax == 22

\* the requests in flight at one time
MaxPending == 1

(* --------------------------- program constants -------------------------- *)
\* @paginate(PageNumberPagination, page_size=20)
PageSize == 20

ADMIN == "ADMIN"
CUSTOMER == "CUSTOMER"

ProductNotFound == "Product not found or could not be fetched from the API."
AlreadyFavorite == "The product selected is already on user's favorites."
NotOnFavorites == "This product is not on your favorites."
UserNotFound == "No user was found with the provided ID."
EmailInUse == "The provided email is already in use."
Unauthorized == "Unauthorized"
ServerError == "Internal Server Error"

(* ------------------------------ input values ---------------------------- *)
\* a request without the X-API-Key header
NoKey == <<>>
\* a null column, an absent JSON key
Null == -1
\* a payload field the request does not set; a payload field set to null
Unset == "Unset"
NullField == "Null"
\* the empty string, which Python takes as false
Empty == ""
\* a key that an item of the catalog does not hold
AbsentKey == "absent"
Pages == 1..MaxPage

VARIABLES
    users,          \* User rows: [id, name, email, password, role]
    tokens,         \* AuthToken rows: [id, key, user]
    products,       \* Product rows
    favorites,      \* FavoriteProducts rows, a bag of [user, product]
    nextUserId,     \* the store's next User primary key
    nextKey,        \* the store's next AuthToken primary key
    nextProductId,  \* the store's next Product primary key
    now,            \* the clock auto_now_add reads
    response,       \* the response to the last request
    pending         \* the requests that have read the store and not yet written

vars == <<users, tokens, products, favorites, nextUserId, nextKey, nextProductId, now,
          response, pending>>

\* the current store and last response, as an outcome
Cur ==
    [users |-> users, tokens |-> tokens, products |-> products,
     favorites |-> favorites, nextUserId |-> nextUserId, nextKey |-> nextKey,
     nextProductId |-> nextProductId, now |-> now, response |-> response]

\* the store of an outcome
StoreOf(o) ==
    <<o.users, o.tokens, o.products, o.favorites, o.nextUserId, o.nextKey,
      o.nextProductId, o.now>>

\* the store and the response of outcome o are written
Writes(o) ==
    /\ users' = o.users
    /\ tokens' = o.tokens
    /\ products' = o.products
    /\ favorites' = o.favorites
    /\ nextUserId' = o.nextUserId
    /\ nextKey' = o.nextKey
    /\ nextProductId' = o.nextProductId
    /\ now' = o.now
    /\ response' = o.response

\* the request ends with outcome o; the requests in flight stay where they are
Becomes(o) == Writes(o) /\ pending' = pending

\* the request in flight r ends with outcome o
Resumes(r, o) == Writes(o) /\ pending' = pending \ {r}

(* ------------------------------ the store ------------------------------- *)
\* QuerySet.first(): the row with the least primary key, as a set of 0 or 1
First(rows) == {r \in rows : \A q \in rows : r.id <= q.id}

TheOne(rows) == CHOOSE r \in rows : TRUE

\* the row never looked up before the fetch
ProductsByApiIdNone(p_id) == {}

\* Product.objects.filter(api_id=p_id)
ProductsByApiId(p_id) == {r \in products : r.api_id = p_id}

\* the constraint left out
ProductUniqueViolationNever(row) == FALSE

\* Product.api_id: unique=True
ProductUniqueViolation(row) == \E r \in products : r.api_id = row.api_id

\* the constraint left out
FavoriteUniqueViolationNever(link) == FALSE

\* FavoriteProducts.Meta.unique_together = ("user", "product")
FavoriteUniqueViolation(link) == CopiesIn(link, favorites) > 0

\* the filter without user=request.auth
FavoritesOfAnyUser(user_id, p_id) ==
    {l \in BagToSet(favorites) :
        \E r \in products : r.id = l.product /\ r.api_id = p_id}

\* the filter without product__api_id=p_id
FavoritesOfAnyProduct(user_id, p_id) ==
    {l \in BagToSet(favorites) : l.user = user_id}

\* FavoriteProducts.objects.filter(user=request.auth, product__api_id=p_id)
FavoritesOf(user_id, p_id) ==
    {l \in BagToSet(favorites) :
        /\ l.user = user_id
        /\ \E r \in products : r.id = l.product /\ r.api_id = p_id}

(* --------------------------- authentication ----------------------------- *)
\* the key not compared: any user with a token, for any key sent
ApiKeyAuthenticateAnyToken(key) ==
    {u \in users : key # NoKey /\ \E t \in tokens : t.user = u.id}

\* ApiKey.authenticate: the user of the token row with this key, as a set of 0 or 1
ApiKeyAuthenticate(key) ==
    {u \in users : \E t \in tokens : t.key = key /\ t.user = u.id}

\* the role not checked
AdminApiKeyAuthenticateAnyRole(key) == ApiKeyAuthenticate(key)

\* AdminApiKey.authenticate: the same, and the user's role is ADMIN
AdminApiKeyAuthenticate(key) ==
    {u \in ApiKeyAuthenticate(key) : u.role = ADMIN}

(* ------------------------------ responses ------------------------------- *)
\* the route and key of the request, and the response to it
Reply(route, key, status, error, body, count) ==
    [route |-> route, key |-> key, status |-> status, error |-> error,
     body |-> body, count |-> count]

\* an outcome that leaves the store as it is
Respond(route, key, status, error, body, count) ==
    [Cur EXCEPT !.response = Reply(route, key, status, error, body, count)]

\* the gate returned None: 401, and the endpoint function is not called
Reject(route, key) == Respond(route, key, 401, Unauthorized, <<>>, Null)

\* ProductSchemaOut
ProductSchemaOut(row) ==
    [api_id |-> row.api_id, title |-> row.title, image |-> row.image,
     price |-> row.price, rating_rate |-> row.rating_rate,
     rating_count |-> row.rating_count]

(* --------------------------- external catalog --------------------------- *)
\* Python truthiness of a JSON number or an absent key
Truthy(x) == x # Null /\ x # 0

\* data.get("rating"): a non-empty object
HasRating(data) == data.rating.rate # Null \/ data.rating.count # Null

\* an item of the external catalog; prices in hundredths, rates in tenths
CatalogItem(id, rating) ==
    [id |-> id, title |-> "title", price |-> 1095, description |-> "description",
     category |-> "category", image |-> "image", rating |-> rating]

\* what get_product and create_product_from_api_data can meet: an item; a
\* transport error (RequestException); a body that does not decode, as for an
\* unknown id (ValueError); an object without a required key (KeyError); a price
\* that is no number (decimal.InvalidOperation)
FetchErrors == {"RequestException", "ValueError", "KeyError", "InvalidOperation"}

FetchResults(ids) ==
    {[kind |-> "ok", item |-> CatalogItem(id, [rate |-> 39, count |-> 0])] : id \in ids}
    \cup {[kind |-> k, item |-> CatalogItem(0, [rate |-> Null, count |-> Null])] :
             k \in FetchErrors}

\* except requests.RequestException alone
CaughtTransportOnly(kind) == kind = "RequestException"

\* except (requests.RequestException, KeyError, ValueError)
Caught(kind) == kind \in {"RequestException", "KeyError", "ValueError"}

\* Product(api_id=data["id"], ...): the row built from an item, with the primary
\* key and the date_created the save gives it
ProductRow(data, id, date_created) ==
    [id |-> id,
     api_id |-> data.id,
     title |-> data.title,
     price |-> data.price,
     description |-> data.description,
     category |-> data.category,
     image |-> data.image,
     rating_rate |-> IF HasRating(data) /\ Truthy(data.rating.rate)
                     THEN data.rating.rate ELSE Null,
     rating_count |-> IF HasRating(data) /\ Truthy(data.rating.count)
                      THEN data.rating.count ELSE Null,
     date_created |-> date_created]

\* create_product_from_api_data: the row it saves
ProductFromApiData(data) == ProductRow(data, nextProductId, now)

(* --------------------------- common endpoints --------------------------- *)
\* FavoriteProducts.objects.create(user=request.auth, product=product), the
\* IntegrityError it may raise, and the return of add_favorite; `saved` is the
\* outcome so far (the product row saved, if it was new)
CreateFavorite(saved, key, user, product) ==
    LET link == [user |-> user.id, product |-> product.id] IN
    IF FavoriteUniqueViolation(link)
    THEN [saved EXCEPT !.response = Reply("add_favorite", key, 400, AlreadyFavorite, <<>>, Null)]
    ELSE [saved EXCEPT !.favorites = @ (+) SetToBag({link}),
                       !.response = Reply("add_favorite", key, 201, "",
                                          <<ProductSchemaOut(product)>>, Null)]

\* add_favorite from `if not product:` on, for a request whose look-up found
\* no row: the fetch, the save of the new row, the link and the return
AddFavoriteAfterMiss(key, user, fetch) ==
    IF fetch.kind # "ok"
    THEN IF Caught(fetch.kind)
         THEN Respond("add_favorite", key, 400, ProductNotFound, <<>>, Null)
         ELSE Respond("add_favorite", key, 500, ServerError, <<>>, Null)
    ELSE LET row == ProductFromApiData(fetch.item) IN
         IF ProductUniqueViolation(row)
         THEN \* product.save() raises IntegrityError, which add_favorite does not catch
              Respond("add_favorite", key, 500, ServerError, <<>>, Null)
         ELSE CreateFavorite([Cur EXCEPT !.products = @ \cup {row},
                                         !.nextProductId = @ + 1,
                                         !.now = @ + 1],
                             key, user, row)

\* POST /common/favorites/{p_id}; fetch is what the external catalog does if asked
add_favorite(key, p_id, fetch) ==
    LET auth == ApiKeyAuthenticate(key)
        found == First(ProductsByApiId(p_id))
    IN
    IF auth = {} THEN Reject("add_favorite", key)
    ELSE IF found # {} THEN CreateFavorite(Cur, key, TheOne(auth), TheOne(found))
    ELSE AddFavoriteAfterMiss(key, TheOne(auth), fetch)

\* the Product row of a deleted link deleted with it
ProductsWithoutUnlinked(link) == {r \in products : r.id # link.product}

\* product_in_favorite.delete(): the link row alone goes; no Product row
\* refers to it
ProductsAfterUnlink(link) == products

\* POST /common/favorites/{p_id}/delete
delete_favorite(key, p_id) ==
    LET auth == ApiKeyAuthenticate(key) IN
    IF auth = {} THEN Reject("delete_favorite", key)
    ELSE LET product_in_favorite == FavoritesOf(TheOne(auth).id, p_id) IN
         IF product_in_favorite = {}
         THEN Respond("delete_favorite", key, 400, NotOnFavorites, <<>>, Null)
         ELSE [Cur EXCEPT !.favorites = @ (-) SetToBag({TheOne(product_in_favorite)}),
                          !.products = ProductsAfterUnlink(TheOne(product_in_favorite)),
                          !.response = Reply("delete_favorite", key, 204, "", <<>>, Null)]

\* Product.objects.filter(favoriteproducts__user=request.auth): the join, one
\* row per matching link
FavoriteJoin(user_id) ==
    UNION {{<<r, i>> : i \in 1..CopiesIn([user |-> user_id, product |-> r.id], favorites)} :
             r \in products}

\* .order_by("api_id")
RECURSIVE OrderByApiId(_)
OrderByApiId(rows) ==
    IF rows = {} THEN <<>>
    ELSE LET m == CHOOSE r \in rows : \A q \in rows : r[1].api_id <= q[1].api_id
         IN <<m[1]>> \o OrderByApiId(rows \ {m})

\* .order_by("date_created"), ascending
RECURSIVE OrderByDateCreated(_)
OrderByDateCreated(rows) ==
    IF rows = {} THEN <<>>
    ELSE LET m == CHOOSE r \in rows :
                    \A q \in rows : r[1].date_created <= q[1].date_created
         IN <<m[1]>> \o OrderByDateCreated(rows \ {m})

Min(a, b) == IF a <= b THEN a ELSE b

\* the page number taken as counted from 0
PageItemsFromZero(queryset, page) ==
    LET offset == page * PageSize IN
    SubSeq(queryset, offset + 1, Min(offset + PageSize, Len(queryset)))

\* PageNumberPagination.paginate_queryset: queryset[offset : offset + page_size]
PageItems(queryset, page) ==
    LET offset == (page - 1) * PageSize IN
    SubSeq(queryset, offset + 1, Min(offset + PageSize, Len(queryset)))

Map(s, Op(_)) == [i \in 1..Len(s) |-> Op(s[i])]

\* GET /common/favorites?page=
get_favorites(key, page) ==
    LET auth == ApiKeyAuthenticate(key) IN
    IF auth = {} THEN Reject("get_favorites", key)
    ELSE LET queryset == OrderByDateCreated(FavoriteJoin(TheOne(auth).id)) IN
         Respond("get_favorites", key, 200, "",
                 Map(PageItems(queryset, page), ProductSchemaOut), Len(queryset))

(* ------------------------------- users ---------------------------------- *)
\* the address kept as it was sent
NormalizeEmailNot(email) == email

\* BaseUserManager.normalize_email: the domain part in lower case
NormalizeEmail(email) == IF email = "b@X.com" THEN "b@x.com" ELSE email

\* set_password / make_password: the salted hash, never the password itself
MakePassword(password, salt) == [salt |-> salt, hash |-> <<"pbkdf2_sha256", salt, password>>]

\* an email column without unique=True
EmailUniqueViolationNever(row) == FALSE

\* User.email: unique=True, against every other row
EmailUniqueViolation(row) == \E u \in users : u.id # row.id /\ u.email = row.email

\* User.token: the key of the user's first token, or None
UserToken(user_id) ==
    LET mine == First({t \in tokens : t.user = user_id}) IN
    IF mine = {} THEN NoKey ELSE TheOne(mine).key

\* UserBaseSchema
UserBaseSchema(row) == [id |-> row.id, name |-> row.name, email |-> row.email]

\* UserSchemaOut, with the user's token as it is when the response is built
UserSchemaOut(row, token) ==
    [id |-> row.id, name |-> row.name, email |-> row.email, token |-> token]

\* the opaque key of the n-th token issued
KeyOf(n) == <<"key", n>>

\* AuthToken.objects.create(user=user): a row with a fresh key
NewToken(user_id) == [id |-> nextKey, key |-> KeyOf(nextKey), user |-> user_id]

\* the links left behind when their user goes
FavoritesKept(user_id) == favorites

\* on_delete=CASCADE from FavoriteProducts.user
FavoritesWithoutUser(user_id) ==
    LET keep == {l \in BagToSet(favorites) : l.user # user_id} IN
    [l \in keep |-> favorites[l]]

\* on_delete=CASCADE from AuthToken.user
TokensWithoutUser(user_id) == {t \in tokens : t.user # user_id}

(* ------------------------- management endpoints ------------------------- *)
\* a user created as an admin
DefaultRoleAdmin == ADMIN

\* User.role: default=Role.CUSTOMER, the role of a user created without one
DefaultRole == CUSTOMER

\* a user created without a token
TokensAfterCreateNone(user_id) == tokens

\* AuthToken.objects.create(user=user) in create_user
TokensAfterCreate(user_id) == tokens \cup {NewToken(user_id)}

NameRank(name) == IF name = "ann" THEN 1 ELSE IF name = "bob" THEN 2 ELSE 0

\* User.objects.all().order_by("name"): an order of all the rows that is
\* ascending in name (the order among equal names is the database's choice)
OrderedByName(queryset) ==
    /\ Len(queryset) = Cardinality(users)
    /\ {queryset[i] : i \in 1..Len(queryset)} = users
    /\ \A i, j \in 1..Len(queryset) :
          i < j => NameRank(queryset[i].name) <= NameRank(queryset[j].name)

\* GET /management/user/list?page=; queryset is the rows as the database orders them
get_user_list(key, page, queryset) ==
    IF AdminApiKeyAuthenticate(key) = {} THEN Reject("get_user_list", key)
    ELSE Respond("get_user_list", key, 200, "",
                 Map(PageItems(queryset, page), UserBaseSchema), Len(queryset))

\* POST /management/user; salt is the random salt set_password draws
create_user(key, payload, salt) ==
    IF AdminApiKeyAuthenticate(key) = {} THEN Reject("create_user", key)
    ELSE IF payload.email = Empty
    THEN \* UserManager.create_user raises ValueError, which the endpoint does not catch
         Respond("create_user", key, 500, ServerError, <<>>, Null)
    ELSE LET user == [id |-> nextUserId,
                      name |-> payload.name,
                      email |-> NormalizeEmail(payload.email),
                      password |-> MakePassword(payload.password, salt),
                      role |-> DefaultRole]
         IN
         IF EmailUniqueViolation(user)
         THEN Respond("create_user", key, 400, EmailInUse, <<>>, Null)
         ELSE [Cur EXCEPT !.users = @ \cup {user},
                          !.tokens = TokensAfterCreate(user.id),
                          !.nextUserId = @ + 1,
                          !.nextKey = @ + 1,
                          !.response = Reply("create_user", key, 201, "",
                                <<UserSchemaOut(user, NewToken(user.id).key)>>, Null)]

\* a lookup that falls back on the first row
UserByIdOrFirst(user_id) ==
    IF \E u \in users : u.id = user_id THEN {u \in users : u.id = user_id} ELSE First(users)

\* User.objects.get(pk=user_id), as a set of 0 or 1
UserById(user_id) == {u \in users : u.id = user_id}

\* GET /management/user/{user_id}
get_user(key, user_id) ==
    IF AdminApiKeyAuthenticate(key) = {} THEN Reject("get_user", key)
    ELSE IF UserById(user_id) = {}
    THEN Respond("get_user", key, 400, UserNotFound, <<>>, Null)
    ELSE Respond("get_user", key, 200, "", <<UserBaseSchema(TheOne(UserById(user_id)))>>, Null)

\* a payload field that is unset or null reads as None
IsNone(field) == field \in {Unset, NullField}

\* no look for the email among the rows
EmailCheckNone(email) == {}

\* User.objects.filter(email=payload.email).first(): over every row
EmailCheck(email) ==
    IF IsNone(email) THEN {} ELSE First({u \in users : u.email = email})

\* payload.dict() without exclude_unset: every field is set, the absent ones to None
UpdatedFieldAll(field, old) == IF field = Unset THEN NullField ELSE field

\* payload.dict(exclude_unset=True) and setattr: a field the request sets
\* replaces the stored one, null included
UpdatedField(field, old) == IF field = Unset THEN old ELSE field

\* update_user from the setattr loop on, for a request whose email check
\* found no row: the fields, the password, the save and the return
UpdateAfterCheck(key, old, payload, salt) ==
    LET name == UpdatedField(payload.name, old.name)
        email == UpdatedField(payload.email, old.email)
        \* `if password:` skips None and the empty string
        password == IF IsNone(payload.password) \/ payload.password = Empty
                    THEN old.password
                    ELSE MakePassword(payload.password, salt)
        user == [id |-> old.id, name |-> name, email |-> email,
                 password |-> password, role |-> old.role]
    IN
    IF name = NullField \/ email = NullField \/ EmailUniqueViolation(user)
    THEN \* user.save() raises IntegrityError, which update_user does not catch
         Respond("update_user", key, 500, ServerError, <<>>, Null)
    ELSE [Cur EXCEPT !.users = {u \in @ : u.id # old.id} \cup {user},
                     !.response = Reply("update_user", key, 200, "",
                           <<UserSchemaOut(user, UserToken(user.id))>>, Null)]

\* PUT /management/user/{user_id}
update_user(key, user_id, payload, salt) ==
    IF AdminApiKeyAuthenticate(key) = {} THEN Reject("update_user", key)
    ELSE IF UserById(user_id) = {}
    THEN Respond("update_user", key, 400, UserNotFound, <<>>, Null)
    ELSE IF EmailCheck(payload.email) # {}
    THEN Respond("update_user", key, 400, EmailInUse, <<>>, Null)
    ELSE UpdateAfterCheck(key, TheOne(UserById(user_id)), payload, salt)

\* DELETE /management/user/{user_id}
delete_user(key, user_id) ==
    IF AdminApiKeyAuthenticate(key) = {} THEN Reject("delete_user", key)
    ELSE IF UserById(user_id) = {}
    THEN Respond("delete_user", key, 400, UserNotFound, <<>>, Null)
    ELSE [Cur EXCEPT !.users = @ \ UserById(user_id),
                     !.tokens = TokensWithoutUser(user_id),
                     !.favorites = FavoritesWithoutUser(user_id),
                     !.response = Reply("delete_user", key, 204, "", <<>>, Null)]

(* ------------------------------ sync job -------------------------------- *)
\* a run that takes the error for a catalog
SyncFailedNever(fetch) == FALSE

\* except requests.RequestException: the fetch of the catalog failed
SyncFailed(fetch) == fetch.kind = "RequestException"

\* has_changes: title, price, description, category or image differs
HasChanges(product, data) ==
    \/ product.title # data.title
    \/ product.price # data.price
    \/ product.description # data.description
    \/ product.category # data.category
    \/ product.image # data.image

\* the row after the assignments of a changed item; the rating is assigned
\* when the item has one
Overwritten(product, data) ==
    [product EXCEPT !.title = data.title,
                    !.price = data.price,
                    !.description = data.description,
                    !.category = data.category,
                    !.image = data.image,
                    !.rating_rate = IF HasRating(data) THEN data.rating.rate ELSE @,
                    !.rating_count = IF HasRating(data) THEN data.rating.count ELSE @]

\* a row made for an item that has none
CreatedOnDoesNotExist(rows, data) == rows \cup {ProductRow(data, nextProductId, now)}

\* except Product.DoesNotExist: the rows are left as they are
OnDoesNotExist(rows, data) == rows

\* an item without a row left out of the count
SkippedNotCounted(skipped_count) == skipped_count

\* skipped_count += 1 for an item without a row
SkippedMissing(skipped_count) == skipped_count + 1

\* one turn of the loop over api_products; an item without its "title" key
\* raises KeyError when its row is compared, and the run ends there
SyncItem(st, data) ==
    LET found == {r \in st.products : r.api_id = data.id} IN
    IF found = {}
    THEN [st EXCEPT !.products = OnDoesNotExist(@, data),
                    !.skipped_count = SkippedMissing(@)]
    ELSE IF data.title = AbsentKey
    THEN [st EXCEPT !.raised = TRUE]
    ELSE IF HasChanges(TheOne(found), data)
    THEN [st EXCEPT !.products = (@ \ found) \cup {Overwritten(TheOne(found), data)},
                    !.updated_count = @ + 1]
    ELSE [st EXCEPT !.skipped_count = @ + 1]

RECURSIVE SyncLoop(_, _)
SyncLoop(st, api_products) ==
    IF api_products = <<>> \/ st.raised THEN st
    ELSE SyncLoop(SyncItem(st, Head(api_products)), Tail(api_products))

\* manage.py sync_products: Command.handle; the response holds what the run
\* writes last: the failure of the fetch, or the two counts, or nothing when
\* an exception ends the run
sync_products(fetch) ==
    IF SyncFailed(fetch)
    THEN Respond("sync_products", NoKey, 0, "Failed to fetch products", <<>>, Null)
    ELSE LET end == SyncLoop([products |-> products, updated_count |-> 0,
                              skipped_count |-> 0, raised |-> FALSE], fetch.api_products)
         IN
         IF end.raised
         THEN [Cur EXCEPT !.products = end.products,
                          !.response = Reply("sync_products", NoKey, 0, "KeyError", <<>>, Null)]
         ELSE [Cur EXCEPT !.products = end.products,
                          !.response = Reply("sync_products", NoKey, 0, "",
                                <<[updated |-> end.updated_count,
                                   skipped |-> end.skipped_count]>>, Null)]

(* ----------------------- Spec: the whole API ---------------------------- *)
\* The requests of Spec: every route, the keys and user ids the store can
\* issue, one catalog id.
Keys == {NoKey} \cup {KeyOf(n) : n \in 1..MaxUserId}
\* the page numbers sent where the lists fit on the first page
FirstPages == {1, 2}
UserIdArgs == 1..MaxUserId
CatalogIds == {1}
\* two addresses, the second also with its domain in capitals
Emails == {"a@x.com", "b@x.com", "b@X.com"}
Salts == {"s1"}
CreatePayloads == [name : {"ann"}, email : Emails \cup {Empty}, password : {"pw1"}]
UpdatePayloads ==
    [name : {Unset}, email : Emails \cup {Empty, Unset, NullField}, password : {Unset}]

\* createsuperuser: one ADMIN user and its token
AdminUser ==
    [id |-> 1, name |-> "ann", email |-> "a@x.com",
     password |-> MakePassword("pw1", "s1"), role |-> ADMIN]

\* the store after createsuperuser
Init ==
    /\ users = {AdminUser}
    /\ tokens = {[id |-> 1, key |-> KeyOf(1), user |-> 1]}
    /\ products = {}
    /\ favorites = EmptyBag
    /\ nextUserId = 2
    /\ nextKey = 2
    /\ nextProductId = 1
    /\ now = 1
    /\ response = Reply("none", NoKey, 0, "", <<>>, Null)
    /\ pending = {}

AddFavorite ==
    \E key \in Keys, p_id \in CatalogIds, fetch \in FetchResults(CatalogIds) :
        Becomes(add_favorite(key, p_id, fetch))

DeleteFavorite ==
    \E key \in Keys, p_id \in CatalogIds : Becomes(delete_favorite(key, p_id))

GetFavorites ==
    \E key \in Keys, page \in FirstPages : Becomes(get_favorites(key, page))

GetUserList ==
    \E key \in Keys, page \in FirstPages, queryset \in [1..Cardinality(users) -> users] :
        /\ OrderedByName(queryset)
        /\ Becomes(get_user_list(key, page, queryset))

\* the store issues user ids up to MaxUserId
CreateUser ==
    \E key \in Keys, payload \in CreatePayloads, salt \in Salts :
        /\ create_user(key, payload, salt).nextUserId <= MaxUserId + 1
        /\ Becomes(create_user(key, payload, salt))

GetUser ==
    \E key \in Keys, user_id \in UserIdArgs : Becomes(get_user(key, user_id))

UpdateUser ==
    \E key \in Keys, user_id \in UserIdArgs, payload \in UpdatePayloads, salt \in Salts :
        Becomes(update_user(key, user_id, payload, salt))

DeleteUser ==
    \E key \in Keys, user_id \in UserIdArgs : Becomes(delete_user(key, user_id))

Next ==
    \/ AddFavorite
    \/ DeleteFavorite
    \/ GetFavorites
    \/ GetUserList
    \/ CreateUser
    \/ GetUser
    \/ UpdateUser
    \/ DeleteUser

Spec == Init /\ [][Next]_vars

(* -------------------- SpecFav: the favorites routes --------------------- *)
\* The requests of SpecFav: the three common routes, over a store that holds
\* the admin and one customer; key 3 matches no token row.
FavKeys == {NoKey, KeyOf(1), KeyOf(2), KeyOf(3)}
FavCatalogIds == 1..MaxCatalogId

CustomerUser ==
    [id |-> 2, name |-> "ann", email |-> "b@x.com",
     password |-> MakePassword("pw1", "s1"), role |-> CUSTOMER]

\* the store after createsuperuser and one create_user
InitFav ==
    /\ users = {AdminUser, CustomerUser}
    /\ tokens = {[id |-> 1, key |-> KeyOf(1), user |-> 1],
                     [id |-> 2, key |-> KeyOf(2), user |-> 2]}
    /\ products = {}
    /\ favorites = EmptyBag
    /\ nextUserId = 3
    /\ nextKey = 3
    /\ nextProductId = 1
    /\ now = 1
    /\ response = Reply("none", NoKey, 0, "", <<>>, Null)
    /\ pending = {}

FavAddFavorite ==
    \E key \in FavKeys, p_id \in FavCatalogIds, fetch \in FetchResults(FavCatalogIds) :
        Becomes(add_favorite(key, p_id, fetch))

FavDeleteFavorite ==
    \E key \in FavKeys, p_id \in FavCatalogIds : Becomes(delete_favorite(key, p_id))

FavGetFavorites ==
    \E key \in FavKeys, page \in Pages : Becomes(get_favorites(key, page))

NextFav ==
    \/ FavAddFavorite
    \/ FavDeleteFavorite
    \/ FavGetFavorites

SpecFav == InitFav /\ [][NextFav]_vars

(* ------------------ SpecList: the pages of get_favorites ---------------- *)
\* The stores of SpecList: n Product rows, created one after the other for the
\* catalog ids 1..n in ascending or in descending order; the customer has all
\* of them on their favorites, or all but the first, the 20th or the last; the
\* admin all or none.
ListProduct(n, j, descending) ==
    ProductRow(CatalogItem(IF descending THEN n + 1 - j ELSE j, [rate |-> 39, count |-> 0]),
               j, j)

InitList ==
    \E n \in 0..ListMax, descending \in BOOLEAN, admin \in BOOLEAN :
      \E hole \in {0, 1, PageSize, n} :
        /\ hole <= n
        /\ users = {AdminUser, CustomerUser}
        /\ tokens = {[id |-> 1, key |-> KeyOf(1), user |-> 1],
                     [id |-> 2, key |-> KeyOf(2), user |-> 2]}
        /\ products = {ListProduct(n, j, descending) : j \in 1..n}
        /\ favorites =
              SetToBag({[user |-> 2, product |-> j] : j \in (1..n) \ {hole}}
                       \cup {[user |-> 1, product |-> j] : j \in IF admin THEN 1..n ELSE {}})
        /\ nextUserId = 3
        /\ nextKey = 3
        /\ nextProductId = n + 1
        /\ now = n + 1
        /\ response = Reply("none", NoKey, 0, "", <<>>, Null)
        /\ pending = {}

ListGetFavorites ==
    \E key \in FavKeys, page \in Pages : Becomes(get_favorites(key, page))

NextList == ListGetFavorites

SpecList == InitList /\ [][NextList]_vars

(* ------------------- SpecUsers: user administration -------------------- *)
\* The requests of SpecUsers: get, update and delete of a user, by the admin
\* and by a customer, over a store that holds the two of them, one product
\* and any of their links to it; the last user id names no user.
UsersKeys == {KeyOf(1), KeyOf(2)}
UsersIdArgs == 1..(MaxUserId + 1)
UsersSalts == {"s2"}
UsersUpdatePayloads ==
    [name : {Unset, "bob", NullField},
     email : {Unset, "a@x.com", "c@x.com", NullField},
     password : {Unset, "pw2", Empty}]

InitUsers ==
    \E links \in SUBSET {[user |-> 1, product |-> 1], [user |-> 2, product |-> 1]} :
        /\ users = {AdminUser, CustomerUser}
        /\ tokens = {[id |-> 1, key |-> KeyOf(1), user |-> 1],
                     [id |-> 2, key |-> KeyOf(2), user |-> 2]}
        /\ products = {ProductRow(CatalogItem(1, [rate |-> 39, count |-> 0]), 1, 1)}
        /\ favorites = SetToBag(links)
        /\ nextUserId = 3
        /\ nextKey = 3
        /\ nextProductId = 2
        /\ now = 2
        /\ response = Reply("none", NoKey, 0, "", <<>>, Null)
        /\ pending = {}

UsersGetUser ==
    \E key \in UsersKeys, user_id \in UsersIdArgs : Becomes(get_user(key, user_id))

UsersUpdateUser ==
    \E key \in UsersKeys, user_id \in UsersIdArgs, payload \in UsersUpdatePayloads,
       salt \in UsersSalts :
        Becomes(update_user(key, user_id, payload, salt))

UsersDeleteUser ==
    \E key \in UsersKeys, user_id \in UsersIdArgs : Becomes(delete_user(key, user_id))

NextUsers ==
    \/ UsersGetUser
    \/ UsersUpdateUser
    \/ UsersDeleteUser

SpecUsers == InitUsers /\ [][NextUsers]_vars

(* ----------------------- SpecSync: the sync job ------------------------- *)
\* The runs of SpecSync: the catalog holds any of the catalog ids, once each
\* in ascending order or one of them twice, each item with the title and the
\* rating of the stored row or other ones, with no rating, or with no title;
\* the store holds rows for any of the catalog ids, favorited by the customer.
SyncIds == 1..MaxCatalogId
SyncRatings == {[rate |-> 39, count |-> 0], [rate |-> 41, count |-> 7],
                [rate |-> Null, count |-> Null]}
SyncVariants ==
    [title : {"title", "title2"}, rating : SyncRatings]
    \cup {[title |-> AbsentKey, rating |-> [rate |-> 39, count |-> 0]]}

SyncCatalogItem(id, variant) ==
    [CatalogItem(id, variant.rating) EXCEPT !.title = variant.title]

RECURSIVE AscendingCatalog(_, _)
AscendingCatalog(ids, variant) ==
    IF ids = {} THEN <<>>
    ELSE LET id == CHOOSE i \in ids : \A j \in ids : i <= j IN
         <<SyncCatalogItem(id, variant[id])>> \o AscendingCatalog(ids \ {id}, variant)

SyncCatalogs ==
    {AscendingCatalog(ids, variant) : ids \in SUBSET SyncIds, variant \in [SyncIds -> SyncVariants]}
    \cup {<<SyncCatalogItem(id, v), SyncCatalogItem(id, w)>> :
             id \in SyncIds, v \in SyncVariants, w \in SyncVariants}

SyncFetches ==
    {[kind |-> "ok", api_products |-> c] : c \in SyncCatalogs}
    \cup {[kind |-> "RequestException", api_products |-> <<>>]}

InitSync ==
    \E ids \in SUBSET SyncIds :
        /\ users = {AdminUser, CustomerUser}
        /\ tokens = {[id |-> 1, key |-> KeyOf(1), user |-> 1],
                     [id |-> 2, key |-> KeyOf(2), user |-> 2]}
        /\ products = {ProductRow(CatalogItem(id, [rate |-> 39, count |-> 0]), id, id) :
                          id \in ids}
        /\ favorites = SetToBag({[user |-> 2, product |-> id] : id \in ids})
        /\ nextUserId = 3
        /\ nextKey = 3
        /\ nextProductId = MaxCatalogId + 1
        /\ now = MaxCatalogId + 1
        /\ response = Reply("none", NoKey, 0, "", <<>>, Null)
        /\ pending = {}

SyncProducts == \E fetch \in SyncFetches : Becomes(sync_products(fetch))

NextSync == SyncProducts

SpecSync == InitSync /\ [][NextSync]_vars

(* ---------------- SpecRace: requests that interleave ------------------- *)
\* The requests of SpecRace: add_favorite, create_user and update_user, each
\* either run from its first line to its return in one step, or, for the two
\* handlers that read the store before they write it, split at the read: one
\* step for the look-up and the checks, a later step for the rest of the
\* handler, with the steps of other requests in between.
RaceKeys == {KeyOf(1), KeyOf(2)}
RaceCatalogIds == {1}
RaceIdArgs == {1, 2}
RaceCreatePayloads == [name : {"cy"}, email : {"c@x.com"}, password : {"pw3"}]
RaceUpdatePayloads == [name : {Unset}, email : {Unset, "b@x.com", "c@x.com"}, password : {Unset}]

\* a payload with no field set
NoPayload == [name |-> Unset, email |-> Unset, password |-> Unset]

\* a request between its reads and its writes: the route, the key, the row it
\* read (request.auth for add_favorite, the target for update_user) and its
\* arguments
InFlight(route, key, row, p_id, payload) ==
    [route |-> route, key |-> key, row |-> row, p_id |-> p_id, payload |-> payload]

\* add_favorite up to `if not product:`: the key resolves and the look-up
\* by api_id finds no row; a set of 0 or 1 request in flight
AddFavoriteLookUp(key, p_id) ==
    IF ApiKeyAuthenticate(key) # {} /\ First(ProductsByApiId(p_id)) = {}
    THEN {InFlight("add_favorite", key, TheOne(ApiKeyAuthenticate(key)), p_id, NoPayload)}
    ELSE {}

\* update_user up to the setattr loop: the key is an admin's, the target is
\* read and the email check finds no row; a set of 0 or 1 request in flight
UpdateUserCheck(key, user_id, payload) ==
    IF /\ AdminApiKeyAuthenticate(key) # {}
       /\ UserById(user_id) # {}
       /\ EmailCheck(payload.email) = {}
    THEN {InFlight("update_user", key, TheOne(UserById(user_id)), 0, payload)}
    ELSE {}

\* the store after createsuperuser and one create_user, no request in flight
InitRace == InitFav

RaceAddFavorite ==
    \E key \in RaceKeys, p_id \in RaceCatalogIds, fetch \in FetchResults(RaceCatalogIds) :
        Becomes(add_favorite(key, p_id, fetch))

RaceAddFavoriteLookUp ==
    /\ Cardinality(pending) < MaxPending
    /\ \E key \in RaceKeys, p_id \in RaceCatalogIds :
          \E r \in AddFavoriteLookUp(key, p_id) :
              /\ pending' = pending \cup {r}
              /\ Writes(Cur)

RaceAddFavoriteResume ==
    \E r \in pending, fetch \in FetchResults(RaceCatalogIds) :
        /\ r.route = "add_favorite"
        /\ Resumes(r, AddFavoriteAfterMiss(r.key, r.row, fetch))

RaceCreateUser ==
    /\ nextUserId <= MaxUserId + 1
    /\ \E key \in RaceKeys, payload \in RaceCreatePayloads, salt \in Salts :
          Becomes(create_user(key, payload, salt))

RaceUpdateUser ==
    \E key \in RaceKeys, user_id \in RaceIdArgs, payload \in RaceUpdatePayloads,
       salt \in Salts :
        Becomes(update_user(key, user_id, payload, salt))

RaceUpdateUserCheck ==
    /\ Cardinality(pending) < MaxPending
    /\ \E key \in RaceKeys, user_id \in RaceIdArgs, payload \in RaceUpdatePayloads :
          \E r \in UpdateUserCheck(key, user_id, payload) :
              /\ pending' = pending \cup {r}
              /\ Writes(Cur)

RaceUpdateUserResume ==
    \E r \in pending, salt \in Salts :
        /\ r.route = "update_user"
        /\ Resumes(r, UpdateAfterCheck(r.key, r.row, r.payload, salt))

NextRace ==
    \/ RaceAddFavorite
    \/ RaceAddFavoriteLookUp
    \/ RaceAddFavoriteResume
    \/ RaceCreateUser
    \/ RaceUpdateUser
    \/ RaceUpdateUserCheck
    \/ RaceUpdateUserResume

SpecRace == InitRace /\ [][NextRace]_vars

(* ------------------------ claims on the favorites ----------------------- *)
\* the user a key stands for: the owner of the token row with that key
Owner(key) == {u \in users : \E t \in tokens : t.key = key /\ t.user = u.id}

\* the Product rows stored for a catalog id
Stored(p_id) == {r \in products : r.api_id = p_id}

\* the user has a link to a row for the catalog id
HasLink(user_id, p_id) ==
    \E r \in Stored(p_id) : CopiesIn([user |-> user_id, product |-> r.id], favorites) > 0

\* the links of a favorites bag to a product row
LinksTo(favs, product_id) == {l \in BagToSet(favs) : l.product = product_id}

\* the links of a favorites bag of a user
LinksOf(favs, user_id) == {l \in BagToSet(favs) : l.user = user_id}

\* a well-formed item of the catalog for this id
WellFormed(fetch, p_id) == fetch.kind = "ok" /\ fetch.item.id = p_id

\* the rows of an outcome for a catalog id
RowsFor(o, p_id) == {r \in o.products : r.api_id = p_id}

\* the last request was an add_favorite that answered 201 for p_id, and its
\* caller holds the only link to the row for p_id, the newest row of the store
JustCreated(p_id) ==
    /\ response.route = "add_favorite"
    /\ response.status = 201
    /\ response.body[1].api_id = p_id
    /\ \E r \in products :
          /\ r.api_id = p_id
          /\ r.id = nextProductId - 1
          /\ LinksTo(favorites, r.id) =
                {[user |-> u.id, product |-> r.id] : u \in Owner(response.key)}

\* C1: there is never more than one Product row per catalog id.  A first
\* add_favorite for a catalog id that is not stored, by an authenticated user,
\* with a well-formed item, returns 201 and leaves one row and one link; a
\* second one by a different user right after it returns 201 and leaves the
\* one row and exactly two links to it, one per user.
C1_OneProductTwoLinks ==
    /\ \A r1, r2 \in products : r1.api_id = r2.api_id => r1 = r2
    /\ \A key \in FavKeys, p_id \in FavCatalogIds, fetch \in FetchResults(FavCatalogIds) :
          LET auth == Owner(key)
              o == add_favorite(key, p_id, fetch)
          IN
          /\ (auth # {} /\ Stored(p_id) = {} /\ WellFormed(fetch, p_id)) =>
                /\ o.response.status = 201
                /\ Cardinality(RowsFor(o, p_id)) = 1
                /\ \A r \in RowsFor(o, p_id) :
                      /\ LinksTo(o.favorites, r.id) = {[user |-> TheOne(auth).id, product |-> r.id]}
                      /\ CopiesIn([user |-> TheOne(auth).id, product |-> r.id], o.favorites) = 1
          /\ (/\ JustCreated(p_id)
              /\ auth # {}
              /\ auth # Owner(response.key)
              /\ WellFormed(fetch, p_id)) =>
                /\ o.response.status = 201
                /\ Cardinality(RowsFor(o, p_id)) = 1
                /\ \A r \in RowsFor(o, p_id) :
                      /\ LinksTo(o.favorites, r.id) =
                            {[user |-> u.id, product |-> r.id] :
                                u \in auth \cup Owner(response.key)}
                      /\ \A l \in LinksTo(o.favorites, r.id) : CopiesIn(l, o.favorites) = 1

\* two users have added the same new catalog id one after the other
C1_Witness ==
    /\ response.route = "add_favorite"
    /\ response.status = 201
    /\ \E r \in products :
          /\ r.api_id = response.body[1].api_id
          /\ Cardinality(Stored(r.api_id)) = 1
          /\ Cardinality({l.user : l \in LinksTo(favorites, r.id)}) = 2

\* C2: add_favorite by a user who already has a link to the product of that
\* catalog id returns 400 "already on user's favorites" and leaves the store
\* unchanged; no (user, product) pair ever has more than one link.
C2_DuplicateFavoriteRejected ==
    /\ \A l \in BagToSet(favorites) : CopiesIn(l, favorites) = 1
    /\ \A key \in FavKeys, p_id \in FavCatalogIds, fetch \in FetchResults(FavCatalogIds) :
          LET auth == Owner(key)
              o == add_favorite(key, p_id, fetch)
          IN
          (auth # {} /\ HasLink(TheOne(auth).id, p_id)) =>
             /\ o.response.status = 400
             /\ o.response.error = AlreadyFavorite
             /\ StoreOf(o) = StoreOf(Cur)

\* a user has asked again for a product already on their favorites
C2_Witness ==
    /\ response.route = "add_favorite"
    /\ response.status = 400
    /\ response.error = AlreadyFavorite
    /\ \E u \in Owner(response.key) : LinksOf(favorites, u.id) # {}

\* C3: add_favorite for a catalog id that is not stored, when the fetch fails
\* with a transport error, an unknown id or a payload without a required
\* field, returns 400 "not found or could not be fetched" and leaves the store
\* unchanged.
C3_FetchFailureRejected ==
    \A key \in FavKeys, p_id \in FavCatalogIds, fetch \in FetchResults(FavCatalogIds) :
       LET o == add_favorite(key, p_id, fetch) IN
       (/\ Owner(key) # {}
        /\ Stored(p_id) = {}
        /\ fetch.kind \in {"RequestException", "ValueError", "KeyError"}) =>
          /\ o.response.status = 400
          /\ o.response.error = ProductNotFound
          /\ StoreOf(o) = StoreOf(Cur)

\* a fetch has failed for a catalog id that is not stored, other products being stored
C3_Witness ==
    /\ response.route = "add_favorite"
    /\ response.status = 400
    /\ response.error = ProductNotFound
    /\ products # {}
    /\ \E p_id \in FavCatalogIds : Stored(p_id) = {}

\* C4: delete_favorite by a user who has no link for the catalog id returns 400
\* "not on your favorites" and leaves the store unchanged, whether the product
\* is not stored, is stored and not this user's favorite (another user's or
\* nobody's), or was this user's favorite and has been removed.
C4_MissingFavoriteRejected ==
    \A key \in FavKeys, p_id \in FavCatalogIds :
       LET auth == Owner(key)
           o == delete_favorite(key, p_id)
       IN
       (auth # {} /\ ~HasLink(TheOne(auth).id, p_id)) =>
          /\ o.response.status = 400
          /\ o.response.error = NotOnFavorites
          /\ StoreOf(o) = StoreOf(Cur)

\* a user has asked to remove a product that only another user has on their favorites
C4_Witness ==
    /\ response.route = "delete_favorite"
    /\ response.status = 400
    /\ response.error = NotOnFavorites
    /\ \E u \in Owner(response.key), r \in products :
          /\ LinksTo(favorites, r.id) # {}
          /\ \A l \in LinksTo(favorites, r.id) : l.user # u.id
          /\ \A q \in products : q # r => LinksTo(favorites, q.id) = {}

\* C5: a delete_favorite that returns 204 removes the one link of the caller to
\* the product of that catalog id and nothing else: the Product rows, the other
\* users' links to the product and the caller's other links all remain.
C5_DeleteRemovesOneLink ==
    \A key \in FavKeys, p_id \in FavCatalogIds :
       LET auth == Owner(key)
           o == delete_favorite(key, p_id)
       IN
       o.response.status = 204 =>
          /\ auth # {}
          /\ Stored(p_id) # {}
          /\ LET mine == [user |-> TheOne(auth).id,
                          product |-> TheOne(Stored(p_id)).id]
             IN /\ CopiesIn(mine, favorites) = 1
                /\ CopiesIn(mine, o.favorites) = 0
                /\ \A l \in BagToSet(favorites) \cup BagToSet(o.favorites) :
                      l # mine => CopiesIn(l, o.favorites) = CopiesIn(l, favorites)
          /\ o.products = products
          /\ o.users = users
          /\ o.tokens = tokens

\* a user has removed a favorite, keeping another one, and another user keeps
\* their link to the product removed
C5_Witness ==
    /\ response.route = "delete_favorite"
    /\ response.status = 204
    /\ \E u \in Owner(response.key) :
          /\ LinksOf(favorites, u.id) # {}
          /\ \E r \in products :
                /\ [user |-> u.id, product |-> r.id] \notin BagToSet(favorites)
                /\ LinksTo(favorites, r.id) # {}

(* --------------------- claims on the favorites list --------------------- *)
\* the Product rows a user has on their favorites
FavoriteRows(user_id) ==
    {r \in products : CopiesIn([user |-> user_id, product |-> r.id], favorites) > 0}

\* the position of a row among rows by creation time, from 1
Position(r, rows) == Cardinality({q \in rows : q.date_created < r.date_created}) + 1

\* C6: get_favorites for page n >= 1 returns as count the number of products
\* the caller has on their favorites, whatever n, and as items the products at
\* positions (n-1)*20+1 .. min(n*20, count) of the caller's favorites in order
\* of creation: none when n is beyond the last page, and never a product that
\* only another user has on their favorites.
C6_PageOfOwnFavorites ==
    \A key \in FavKeys, page \in Pages :
       LET o == get_favorites(key, page)
           mine == FavoriteRows(TheOne(Owner(key)).id)
           count == Cardinality(mine)
           first == (page - 1) * 20 + 1
           last == IF page * 20 <= count THEN page * 20 ELSE count
           items == o.response.body
       IN
       Owner(key) # {} =>
          /\ o.response.status = 200
          /\ o.response.count = count
          /\ Len(items) = IF first <= last THEN last - first + 1 ELSE 0
          /\ \A i \in 1..Len(items) :
                \E r \in mine :
                   /\ Position(r, mine) = first + i - 1
                   /\ items[i] = ProductSchemaOut(r)

\* the second page of a list of more than 20 favorites has been returned, while
\* the other user has a product on their favorites that the caller has not
C6_Witness ==
    /\ response.route = "get_favorites"
    /\ response.status = 200
    /\ response.count > 20
    /\ Len(response.body) = response.count - 20
    /\ \E u \in Owner(response.key), r \in products :
          /\ r \notin FavoriteRows(u.id)
          /\ \E v \in users : r \in FavoriteRows(v.id)

\* the creation time of the row a returned item stands for
CreatedAt(item) == (CHOOSE r \in products : r.api_id = item.api_id).date_created

\* C7: get_favorites returns the caller's favorites in ascending order of
\* creation time: of two items of a page the earlier created comes first, and
\* every item of a page is created before every item of a later page.
C7_AscendingCreationTime ==
    \A key \in FavKeys, p1 \in Pages, p2 \in Pages :
       LET items1 == get_favorites(key, p1).response.body
           items2 == get_favorites(key, p2).response.body
       IN
       (Owner(key) # {} /\ p1 <= p2) =>
          \A i \in 1..Len(items1), j \in 1..Len(items2) :
             (p1 < p2 \/ i < j) => CreatedAt(items1[i]) < CreatedAt(items2[j])

\* a full first page has been returned from a list that goes on to a second
\* page, the catalog ids not being in the order of creation
C7_Witness ==
    /\ response.route = "get_favorites"
    /\ response.status = 200
    /\ response.count > 20
    /\ Len(response.body) = 20
    /\ response.body[1].api_id > response.body[2].api_id
    /\ CreatedAt(response.body[1]) < CreatedAt(response.body[2])

(* ------------------------- claims on the gates --------------------------- *)
\* the request is refused and the store is as it was
Refused(o, statuses) == o.response.status \in statuses /\ StoreOf(o) = StoreOf(Cur)

\* every outcome of every request to a management route with this key satisfies P
OnEveryManagementRoute(key, P(_)) ==
    /\ \A page \in FirstPages, queryset \in [1..Cardinality(users) -> users] :
          P(get_user_list(key, page, queryset))
    /\ \A payload \in CreatePayloads, salt \in Salts : P(create_user(key, payload, salt))
    /\ \A user_id \in UserIdArgs : P(get_user(key, user_id))
    /\ \A user_id \in UserIdArgs, payload \in UpdatePayloads, salt \in Salts :
          P(update_user(key, user_id, payload, salt))
    /\ \A user_id \in UserIdArgs : P(delete_user(key, user_id))

\* every outcome of every request to a common route with this key satisfies P
OnEveryCommonRoute(key, P(_)) ==
    /\ \A p_id \in CatalogIds, fetch \in FetchResults(CatalogIds) :
          P(add_favorite(key, p_id, fetch))
    /\ \A p_id \in CatalogIds : P(delete_favorite(key, p_id))
    /\ \A page \in FirstPages : P(get_favorites(key, page))

\* C8: a request to a management route (list, create, get, update, delete)
\* whose key belongs to a user of role CUSTOMER is refused with 401 or 403,
\* whatever its payload and path id, and leaves the store unchanged.
C8_CustomerRefusedOnManagement ==
    \A key \in Keys :
       (\E u \in Owner(key) : u.role = CUSTOMER) =>
          LET P(o) == Refused(o, {401, 403}) IN OnEveryManagementRoute(key, P)

\* a customer has been refused on delete_user while two users are stored
C8_Witness ==
    /\ response.route = "delete_user"
    /\ response.status \in {401, 403}
    /\ \E u \in Owner(response.key) : u.role = CUSTOMER
    /\ Cardinality(users) = 2

\* the links of a favorites bag that are not of this user, with their numbers
LinksOfOthers(favs, user_id) ==
    {<<l, CopiesIn(l, favs)>> : l \in {m \in BagToSet(favs) : m.user # user_id}}

\* C9: a request without a key, or with a key that matches no token row, is
\* refused with 401 on every common and management route and leaves the store
\* unchanged; a request whose key matches a token row is handled as the user
\* who owns that token: it passes the gate of the common routes, it passes the
\* gate of the management routes exactly when the owner is an admin, the list
\* it gets counts the owner's favorites, and the links it adds or removes are
\* the owner's.
C9_KeyResolvesToOwner ==
    \A key \in Keys :
       /\ Cardinality(Owner(key)) <= 1
       /\ Owner(key) = {} =>
             LET P(o) == Refused(o, {401}) IN
             OnEveryManagementRoute(key, P) /\ OnEveryCommonRoute(key, P)
       /\ \A u \in Owner(key) :
             /\ LET P(o) == o.response.status # 401 <=> u.role = ADMIN
                IN OnEveryManagementRoute(key, P)
             /\ LET P(o) == /\ o.response.status # 401
                            /\ LinksOfOthers(o.favorites, u.id) = LinksOfOthers(favorites, u.id)
                            /\ o.response.status = 201 =>
                                  LinksOf(o.favorites, u.id) # LinksOf(favorites, u.id)
                            /\ o.response.status = 204 =>
                                  LinksOf(o.favorites, u.id) # LinksOf(favorites, u.id)
                            /\ o.response.status = 200 =>
                                  o.response.count = Cardinality(FavoriteRows(u.id))
                IN OnEveryCommonRoute(key, P)

\* a key that matches no token row has been refused on a common route, while
\* a user has a favorite
C9_Witness ==
    /\ response.route = "get_favorites"
    /\ response.status = 401
    /\ response.key # NoKey
    /\ Owner(response.key) = {}
    /\ favorites # EmptyBag

\* C10: create_user with an email that an existing user already has returns 400
\* "The provided email is already in use." and adds no user row and no token
\* row, the existing rows being unchanged.
C10_DuplicateEmailRejected ==
    \A key \in Keys, payload \in CreatePayloads, salt \in Salts :
       LET o == create_user(key, payload, salt) IN
       (/\ \E a \in Owner(key) : a.role = ADMIN
        /\ \E u \in users : u.email = payload.email) =>
          /\ o.response.status = 400
          /\ o.response.error = EmailInUse
          /\ o.users = users
          /\ o.tokens = tokens

(* --------------------- claims on the management routes ------------------ *)
\* an address with its domain part in lower case
DomainLowered(email) == IF email = "b@X.com" THEN "b@x.com" ELSE email

\* create_user answering 201 has added one user row with this name and this
\* email, and one token row of that user whose fresh key the response carries
CreatedWith(o, name, email) ==
    \E u \in o.users \ users, t \in o.tokens \ tokens :
       /\ o.users = users \cup {u}
       /\ o.tokens = tokens \cup {t}
       /\ \A v \in users : v.id # u.id
       /\ \A q \in tokens : q.key # t.key
       /\ u.name = name
       /\ u.email = email
       /\ t.user = u.id
       /\ o.response.body[1].id = u.id
       /\ o.response.body[1].token = t.key

\* the key of the last response, a 201 of create_user, stands for the user of
\* that response on the common routes
NewKeyIsNewUser ==
    (response.route = "create_user" /\ response.status = 201) =>
       LET new == response.body[1] IN
       /\ Owner(new.token) = {u \in users : u.id = new.id}
       /\ Cardinality(Owner(new.token)) = 1
       /\ LET P(o) == /\ o.response.status # 401
                      /\ LinksOfOthers(o.favorites, new.id) = LinksOfOthers(favorites, new.id)
                      /\ o.response.status = 200 =>
                            o.response.count = Cardinality(FavoriteRows(new.id))
          IN OnEveryCommonRoute(new.token, P)

\* C11 (amended): a create_user that answers 201 adds exactly one user row,
\* with the given name and with the given email after its domain part is put
\* in lower case, and exactly one token row owned by that user; the response
\* carries that token's key, and that key afterwards authenticates as the new
\* user on the common routes.
C11_CreateAddsUserAndToken ==
    /\ \A key \in Keys, payload \in CreatePayloads, salt \in Salts :
          LET o == create_user(key, payload, salt) IN
          o.response.status = 201 =>
             CreatedWith(o, payload.name, DomainLowered(payload.email))
    /\ NewKeyIsNewUser

\* a create_user sent with a domain in capitals has answered 201
C11_Witness ==
    /\ response.route = "create_user"
    /\ response.status = 201
    /\ response.body[1].email = "b@x.com"
    /\ \E u \in users : u.id = response.body[1].id /\ u.email = "b@x.com"
    /\ Owner(response.body[1].token) # {}

\* C11 as stated: the user row added has the given email as it was sent.
C11_CreateAddsGivenEmail ==
    /\ \A key \in Keys, payload \in CreatePayloads, salt \in Salts :
          LET o == create_user(key, payload, salt) IN
          o.response.status = 201 => CreatedWith(o, payload.name, payload.email)
    /\ NewKeyIsNewUser

\* the key of an admin
AdminKey(key) == \E a \in Owner(key) : a.role = ADMIN

\* the rows of a users table with this id
Row(rows, user_id) == {u \in rows : u.id = user_id}

\* all but the target row's name, email and password is as it was
OnlyFieldsOfTarget(o, user_id) ==
    /\ o.tokens = tokens
    /\ o.favorites = favorites
    /\ o.products = products
    /\ \A v \in users : v.id # user_id => v \in o.users
    /\ \A v \in o.users : v.id # user_id => v \in users
    /\ Cardinality(Row(o.users, user_id)) = Cardinality(Row(users, user_id))
    /\ \A v \in Row(users, user_id), w \in Row(o.users, user_id) : w.role = v.role

\* C12: update_user applies only the fields the payload holds: with a name
\* alone it returns 200, changes the name and leaves the email and the stored
\* password as they were; with no field it returns 200 and changes nothing.
\* Whatever the payload and the answer, the user's role, the tokens, the
\* favorite links and every other user are unchanged.
C12_PartialUpdate ==
    \A key \in UsersKeys, user_id \in UsersIdArgs, payload \in UsersUpdatePayloads,
       salt \in UsersSalts :
       LET o == update_user(key, user_id, payload, salt) IN
       /\ OnlyFieldsOfTarget(o, user_id)
       /\ \A old \in Row(users, user_id) :
             (AdminKey(key) /\ payload.email = Unset /\ payload.password = Unset) =>
                /\ payload.name = "bob" =>
                      /\ o.response.status = 200
                      /\ Row(o.users, user_id) = {[old EXCEPT !.name = "bob"]}
                /\ payload.name = Unset =>
                      /\ o.response.status = 200
                      /\ o.users = users

\* the customer has been renamed, with the email and the password of the start
C12_Witness ==
    /\ response.route = "update_user"
    /\ response.status = 200
    /\ response.body[1].id = 2
    /\ \E u \in users :
          /\ u.id = 2
          /\ u.name = "bob"
          /\ u.email = "b@x.com"
          /\ u.password = [salt |-> "s1", hash |-> <<"pbkdf2_sha256", "s1", "pw1">>]

\* C13: on update_user a payload whose email is the target user's own email is
\* no collision: the request returns 200 and the other fields are applied.
C13_OwnEmailIsNoCollision ==
    \A key \in UsersKeys, user_id \in UsersIdArgs, payload \in UsersUpdatePayloads,
       salt \in UsersSalts :
       LET o == update_user(key, user_id, payload, salt) IN
       \A old \in Row(users, user_id) :
          (AdminKey(key) /\ payload.email = old.email /\ payload.name = "bob") =>
             /\ o.response.status = 200
             /\ \A w \in Row(o.users, user_id) : w.name = "bob" /\ w.email = old.email

\* C14: update_user returns 400 "No user was found" when the id names no user,
\* whatever the payload, a colliding email included, and 400 "already in use"
\* when the id names a user and the payload's email is the email of another
\* user; in both cases no user row is changed, whatever name or password the
\* payload holds.
C14_UpdateRejections ==
    \A key \in UsersKeys, user_id \in UsersIdArgs, payload \in UsersUpdatePayloads,
       salt \in UsersSalts :
       LET o == update_user(key, user_id, payload, salt) IN
       AdminKey(key) =>
          /\ Row(users, user_id) = {} =>
                /\ o.response.status = 400
                /\ o.response.error = "No user was found with the provided ID."
                /\ StoreOf(o) = StoreOf(Cur)
          /\ (/\ Row(users, user_id) # {}
              /\ \E v \in users : v.id # user_id /\ v.email = payload.email) =>
                /\ o.response.status = 400
                /\ o.response.error = "The provided email is already in use."
                /\ StoreOf(o) = StoreOf(Cur)

\* an update has been refused for its email, two users being stored
C14_Witness ==
    /\ response.route = "update_user"
    /\ response.status = 400
    /\ response.error = "The provided email is already in use."
    /\ Cardinality(users) = 2
    /\ \E u \in users : u.email = "c@x.com"

\* C15: a delete_user that answers 204 for user u removes u, the tokens of u
\* and the favorite links of u, and nothing else: the Product rows, the other
\* users, their tokens and their links remain.
C15_DeleteCascades ==
    \A key \in UsersKeys, user_id \in UsersIdArgs :
       LET o == delete_user(key, user_id) IN
       /\ (AdminKey(key) /\ Row(users, user_id) # {}) => o.response.status = 204
       /\ o.response.status = 204 =>
             /\ o.users = users \ Row(users, user_id)
             /\ Row(users, user_id) # {}
             /\ o.tokens = {t \in tokens : t.user # user_id}
             /\ LinksOf(o.favorites, user_id) = {}
             /\ LinksOfOthers(o.favorites, user_id) = LinksOfOthers(favorites, user_id)
             /\ o.products = products

\* the customer has been deleted; the product and the admin's link to it remain
C15_Witness ==
    /\ response.route = "delete_user"
    /\ response.status = 204
    /\ {u.id : u \in users} = {1}
    /\ {t.user : t \in tokens} = {1}
    /\ products # {}
    /\ BagToSet(favorites) = {[user |-> 1, product |-> 1]}

\* C16: get_user, update_user and delete_user on an id that names no user
\* return 400 "No user was found with the provided ID." and leave the store
\* unchanged.  An id once deleted names no user ever after: every user's id is
\* below the next id to issue, and create_user issues that next id.
C16_MissingUserRejected ==
    /\ \A u \in users : u.id < nextUserId
    /\ \A key \in Keys, payload \in CreatePayloads, salt \in Salts :
          LET o == create_user(key, payload, salt) IN
          /\ \A v \in o.users \ users : v.id = nextUserId
          /\ \A v \in o.users : v.id < o.nextUserId
    /\ \A key \in Keys, user_id \in UserIdArgs :
          (AdminKey(key) /\ Row(users, user_id) = {}) =>
             LET P(o) == /\ o.response.status = 400
                         /\ o.response.error = "No user was found with the provided ID."
                         /\ StoreOf(o) = StoreOf(Cur)
             IN /\ P(get_user(key, user_id))
                /\ P(delete_user(key, user_id))
                /\ \A payload \in UpdatePayloads, salt \in Salts :
                      P(update_user(key, user_id, payload, salt))

\* a user has been created and deleted, and a later request for its id refused
C16_Witness ==
    /\ response.route \in {"get_user", "update_user", "delete_user"}
    /\ response.status = 400
    /\ response.error = "No user was found with the provided ID."
    /\ \E user_id \in UserIdArgs : user_id < nextUserId /\ Row(users, user_id) = {}

(* ------------------------ claims on the sync job ------------------------ *)
\* the run has written its two counts
Completed(o) == o.response.error = "" /\ Len(o.response.body) = 1

\* no catalog id is twice in the catalog
DistinctIds(catalog) ==
    \A i, j \in 1..Len(catalog) : catalog[i].id = catalog[j].id => i = j

\* the row has every field of the item, the rating included
SameAsItem(row, item) ==
    /\ row.title = item.title
    /\ row.price = item.price
    /\ row.description = item.description
    /\ row.category = item.category
    /\ row.image = item.image
    /\ row.rating_rate = item.rating.rate
    /\ row.rating_count = item.rating.count

\* C17: after a sync run that completes, every stored Product whose catalog id
\* is in the catalog has the title, price, description, category, image and
\* rating of the catalog's item, also when the rating alone differed.
C17_SyncOverwritesEveryField ==
    \A fetch \in SyncFetches :
       LET o == sync_products(fetch) IN
       (fetch.kind = "ok" /\ DistinctIds(fetch.api_products) /\ Completed(o)) =>
          \A i \in 1..Len(fetch.api_products), row \in o.products :
             row.api_id = fetch.api_products[i].id => SameAsItem(row, fetch.api_products[i])

\* C18: a sync run creates no Product row and deletes none: the rows stored,
\* by primary key and catalog id, are the same before and after, an item of
\* the catalog without a row gets none, and the users, the tokens and the
\* favorite links are unchanged.
C18_SyncKeepsTheRows ==
    \A fetch \in SyncFetches :
       LET o == sync_products(fetch) IN
       /\ {<<r.id, r.api_id, r.date_created>> : r \in o.products} =
             {<<r.id, r.api_id, r.date_created>> : r \in products}
       /\ Cardinality(o.products) = Cardinality(products)
       /\ o.users = users
       /\ o.tokens = tokens
       /\ o.favorites = favorites

\* a run has completed over a catalog with an item that has no row and an
\* item whose row it rewrote
C18_Witness ==
    /\ response.route = "sync_products"
    /\ response.error = ""
    /\ response.body[1].updated > 0
    /\ response.body[1].skipped > 0
    /\ products # {}
    /\ \E id \in SyncIds : \A r \in products : r.api_id # id
    /\ \E r \in products : r.title = "title2"

\* the items of the catalog whose row is not the same after the run
Rewritten(o, catalog) ==
    {i \in 1..Len(catalog) :
        \E r \in products : r.api_id = catalog[i].id /\ r \notin o.products}

\* C19: a sync run that completes reports counts with updated + skipped equal
\* to the number of items of the catalog, each item counted once, and, the
\* items having distinct ids, updated equal to the number of items whose row
\* the run rewrote.
C19_SyncCounts ==
    \A fetch \in SyncFetches :
       LET o == sync_products(fetch) IN
       (fetch.kind = "ok" /\ Completed(o)) =>
          /\ o.response.body[1].updated + o.response.body[1].skipped = Len(fetch.api_products)
          /\ DistinctIds(fetch.api_products) =>
                o.response.body[1].updated =
                   Cardinality(Rewritten(o, fetch.api_products))

\* a run over MaxCatalogId items has completed with rewritten and skipped items
C19_Witness ==
    /\ response.route = "sync_products"
    /\ response.error = ""
    /\ response.body[1].updated + response.body[1].skipped = MaxCatalogId
    /\ response.body[1].updated > 0
    /\ response.body[1].skipped > 0
    /\ Cardinality(products) = MaxCatalogId

\* C20: when the fetch of the catalog fails with a transport error, the run
\* ends with no Product row changed and with no counts reported.
C20_SyncFetchFailure ==
    \A fetch \in SyncFetches :
       LET o == sync_products(fetch) IN
       fetch.kind = "RequestException" =>
          /\ StoreOf(o) = StoreOf(Cur)
          /\ o.response.body = <<>>
          /\ o.response.error # ""

\* a fetch has failed after a run that had rewritten a row
C20_Witness ==
    /\ response.route = "sync_products"
    /\ response.error = "Failed to fetch products"
    /\ \E r \in products : r.title = "title2"

(* ---------------- claims on every sequence of requests ------------------ *)
\* the catalog ids of a products table
ApiIds(rows) == {r.api_id : r \in rows}

\* C21: no request deletes or changes a Product row: in every step the rows
\* stored before are stored after, and a row is added only by an add_favorite
\* that answers 201, one row at a time, for a catalog id that had no row.
C21_ProductsOnlyGrow ==
    [][/\ products \subseteq products'
       /\ products' # products =>
             /\ response'.route = "add_favorite"
             /\ response'.status = 201
             /\ Cardinality(products' \ products) = 1
             /\ \A r \in products' \ products :
                   /\ r.api_id \notin ApiIds(products)
                   /\ r.api_id = response'.body[1].api_id]_vars

\* a user who had favorited the product has been deleted, and the product is
\* still stored
C21_Witness ==
    /\ response.route = "delete_user"
    /\ response.status = 204
    /\ products # {}
    /\ favorites = EmptyBag
    /\ nextUserId > 2

\* C22: no two users stored have the same email.
C22_EmailsUnique ==
    \A u \in users, v \in users : u.email = v.email => u = v

\* a create_user has been refused for its email while two users are stored
C22_Witness ==
    /\ response.route = "create_user"
    /\ response.status = 400
    /\ response.error = "The provided email is already in use."
    /\ Cardinality(users) = 2

\* C23: from the bootstrap admin on, every token row is owned by exactly one
\* stored user and every stored user owns exactly one token row; a token row
\* is added only by a create_user that answers 201 and removed only by a
\* delete_user that answers 204.
C23_OneTokenPerUser ==
    /\ [](/\ \A t \in tokens : Cardinality({u \in users : u.id = t.user}) = 1
          /\ \A u \in users : Cardinality({t \in tokens : t.user = u.id}) = 1)
    /\ [][/\ tokens' \ tokens # {} =>
                response'.route = "create_user" /\ response'.status = 201
          /\ tokens \ tokens' # {} =>
                response'.route = "delete_user" /\ response'.status = 204]_vars

\* a user has been created, with its token, and deleted, with its token
C23_Witness ==
    /\ response.route = "delete_user"
    /\ response.status = 204
    /\ nextKey > 2
    /\ {u.id : u \in users} = {1}
    /\ {t.user : t \in tokens} = {1}

(* ------------------------ claims on the password ------------------------ *)
\* the credential is the salted hash of this password
HashOf(credential, password) ==
    /\ credential.hash[1] = "pbkdf2_sha256"
    /\ credential.hash[2] = credential.salt
    /\ credential.hash[3] = password

\* C24: the stored credential of a user is a hash, never the password itself,
\* and no response holds a password field; whenever the payload of an
\* update_user that answers 200 holds a password, the stored credential
\* afterwards is the hash of that password and, the salt being fresh, differs
\* from the credential stored before.
C24_PasswordRehashed ==
    /\ \A u \in users : \E password \in {"pw1", "pw2", Empty} :
          HashOf(u.password, password)
    /\ \A i \in 1..Len(response.body) : "password" \notin DOMAIN response.body[i]
    /\ \A key \in UsersKeys, user_id \in UsersIdArgs, payload \in UsersUpdatePayloads,
          salt \in UsersSalts :
          LET o == update_user(key, user_id, payload, salt) IN
          (payload.password \notin {Unset, NullField} /\ o.response.status = 200) =>
             \A old \in Row(users, user_id), new \in Row(o.users, user_id) :
                /\ HashOf(new.password, payload.password)
                /\ salt # old.password.salt => new.password # old.password

(* ------------------- more claims on the favorites ----------------------- *)
\* C25: add_favorite asks the external catalog only when the product is not
\* stored: when a Product row for the catalog id exists and the caller has no
\* link to it, the request returns 201 and adds the caller's link whatever the
\* catalog would answer, a failure included, and no Product row is changed.
C25_StoredProductNeedsNoFetch ==
    \A key \in FavKeys, p_id \in FavCatalogIds, fetch \in FetchResults(FavCatalogIds) :
       LET o == add_favorite(key, p_id, fetch) IN
       \A u \in Owner(key), r \in Stored(p_id) :
          ~HasLink(u.id, p_id) =>
             /\ o.response.status = 201
             /\ o.response.body[1].api_id = p_id
             /\ o.products = products
             /\ o.favorites = favorites (+) SetToBag({[user |-> u.id, product |-> r.id]})
             /\ o.users = users
             /\ o.tokens = tokens

\* both users hold a link to the product of id 1, the last one added by the admin
C25_Witness ==
    /\ response.route = "add_favorite"
    /\ response.status = 201
    /\ response.key = KeyOf(1)
    /\ response.body[1].api_id = 1
    /\ HasLink(1, 1)
    /\ HasLink(2, 1)
    /\ Cardinality(Stored(2)) = 0

(* ----------------------- claims on keys and roles ------------------------ *)
\* the keys issued so far
IssuedKeys == {KeyOf(n) : n \in 1..(nextKey - 1)}

Admins(rows) == {u.id : u \in {v \in rows : v.role = "ADMIN"}}

\* C27: no request grants admin rights: every user other than the bootstrap
\* admin, all of them made by create_user, has role CUSTOMER and the key that
\* create_user issued to it is refused on every management route; no step
\* changes the role of a user, and the set of admins never gains a member.
C27_NoNewAdmin ==
    /\ [](\A u \in users :
             u.id # 1 =>
                /\ u.role = "CUSTOMER"
                /\ \A t \in tokens :
                      t.user = u.id =>
                         LET P(o) == Refused(o, {401, 403})
                         IN OnEveryManagementRoute(t.key, P))
    /\ [][/\ Admins(users') \subseteq Admins(users)
          /\ \A u \in users, v \in users' : u.id = v.id => v.role = u.role]_vars

\* the user made by create_user has sent a create_user of its own and been refused
C27_Witness ==
    /\ response.route = "create_user"
    /\ response.status \in {401, 403}
    /\ response.key = KeyOf(2)
    /\ \E u \in Owner(KeyOf(2)) : u.id = 2
    /\ Admins(users) = {1}

(* ----------------------- claims on the round trip ------------------------ *)
\* the catalog ids a user has favorited in an outcome
FavoritedIds(o, user_id) ==
    {r.api_id : r \in {q \in o.products :
                          [user |-> user_id, product |-> q.id] \in BagToSet(o.favorites)}}

\* the catalog ids of the links a step removes
UnlinkedIds ==
    {r.api_id : r \in {q \in products :
                          \E l \in BagToSet(favorites (-) favorites') : l.product = q.id}}

\* C30: add and remove undo each other. After a step that is an add_favorite
\* answering 201 for user u and catalog id p, a delete_favorite of p by u
\* answers 204 and leaves u's favorited catalog ids as they were before the
\* add. After a step that is a delete_favorite answering 204 for u and p, an
\* add_favorite of p by u answers 201 whatever the catalog does, leaves the
\* Product rows as they are, and leaves u's favorited catalog ids as they
\* were before the remove, that is, after the add that made the link.
C30_RoundTrip ==
    [][\A key \in FavKeys, p \in FavCatalogIds : \A u \in Owner(key) :
          /\ (/\ response'.route = "add_favorite"
              /\ response'.status = 201
              /\ response'.key = key
              /\ response'.body[1].api_id = p) =>
                LET o == delete_favorite(key, p)'
                IN /\ o.response.status = 204
                   /\ o.products = products'
                   /\ FavoritedIds(o, u.id) = FavoritedIds(Cur, u.id)
          /\ (/\ response'.route = "delete_favorite"
              /\ response'.status = 204
              /\ response'.key = key
              /\ p \in UnlinkedIds) =>
                \A fetch \in FetchResults(FavCatalogIds) :
                   LET o == add_favorite(key, p, fetch)'
                   IN /\ UnlinkedIds = {p}
                      /\ o.response.status = 201
                      /\ o.products = products'
                      /\ Cardinality(RowsFor(o, p)) = 1
                      /\ FavoritedIds(o, u.id) = FavoritedIds(Cur, u.id)]_vars

\* the customer has added catalog id 1 and removed it: the row is stored, the
\* customer holds no link to it and still favorites catalog id 2
C30_Witness ==
    /\ response.route = "delete_favorite"
    /\ response.status = 204
    /\ response.key = KeyOf(2)
    /\ Stored(1) # {}
    /\ FavoritedIds(Cur, 2) = {2}

(* ------------------ claims on requests that interleave ------------------ *)
\* C28: an add_favorite whose look-up found no row for the catalog id, and
\* that goes on after other requests have run, ends as it would have ended
\* alone: for a well-formed item of the catalog it answers 201 or one of the
\* fixed 400s, never an unhandled error, the store then holds exactly one
\* Product row for the id, and the caller and every user who held a link to
\* that row hold one. The caller holds no link for the id, so that a request
\* that stored the row in between is another user's.
C28_RaceAsSequential ==
    \A r \in pending :
        (r.route = "add_favorite" /\ ~HasLink(r.row.id, r.p_id)) =>
            \A fetch \in FetchResults(RaceCatalogIds) :
                WellFormed(fetch, r.p_id) =>
                    LET o == AddFavoriteAfterMiss(r.key, r.row, fetch) IN
                    /\ o.response.status \in {201, 400}
                    /\ o.response.status = 400 =>
                          o.response.error \in {ProductNotFound, AlreadyFavorite}
                    /\ Cardinality(RowsFor(o, r.p_id)) = 1
                    /\ \A row \in RowsFor(o, r.p_id) :
                          /\ [user |-> r.row.id, product |-> row.id] \in BagToSet(o.favorites)
                          /\ LinksTo(favorites, row.id) \subseteq LinksTo(o.favorites, row.id)

\* C29: an update_user whose email check found no row, and that goes on
\* after another request has given that email to another user, is refused
\* with 400 and the EmailInUse message and leaves the store as it is; and no
\* two users share an email.
C29_LoserGetsEmailInUse ==
    /\ \A u, v \in users : u.email = v.email => u.id = v.id
    /\ \A r \in pending, salt \in Salts :
          (/\ r.route = "update_user"
           /\ ~IsNone(r.payload.email)
           /\ \E u \in users : u.id # r.row.id /\ u.email = r.payload.email)
          => LET o == UpdateAfterCheck(r.key, r.row, r.payload, salt) IN
             /\ o.response.status = 400
             /\ o.response.error = EmailInUse
             /\ StoreOf(o) = StoreOf(Cur)

====
